---------------------------- MODULE Spec2Model ----------------------------
(***************************************************************************)
(* hook_extractor: the component graph handed to the view (MainView), the  *)
(* view's root discovery and layout pass, the traversal queries of the     *)
(* extractor that the view calls, and the view's expand/collapse handlers. *)
(*                                                                         *)
(* Components are numbered 1..NumComp in componentList order.  The graph   *)
(* is children : component -> sequence of components (a JS array, whose    *)
(* order the layout pass sorts in place).                                  *)
(***************************************************************************)
EXTENDS Integers, Sequences, FiniteSets, TLC

\* ---------------------------------------------------------------- bounds
NumComp == 3
MaxEdges == 3
\* depth of nested convertComponentToMark calls at which the engine throws
\* RangeError (maximum call stack size exceeded)
MaxStack == 6
\* change events of the file input, and files selected by one event
MaxUploads == 2
MaxFiles == 2

\* ---------------------------------------------------- program constants
topMargin == 25
baseWidth == 25
baseExpadnedWidth == 325
innerMarkGap == 45

Comp == 1..NumComp

VARIABLES
    children,        \* ComponentNode.children of every component (live arrays)
    falseChildren,   \* ComponentNode.falseChildren of every component
    produced,        \* the children arrays as the extractor produced them
    phase,           \* "extract" | "visited" | "rooted" | "laidout" | "overflow"
    visitStart,      \* the component of the last visitDecendent call (0: none)
    emitted,         \* the components the callback of that call received, in order
    roots,           \* the result of the last findRoots call
    componentNodes,  \* MainView state: the marks built by the layout effect
    maxLevel,        \* the layout effect's maxLevel
    componentEdges,  \* MainView state: the component links
    entities,        \* props, states and effects of every component
    effectNodes,     \* MainView state
    propNodes,       \* MainView state
    stateNodes,      \* MainView state
    effectEdges,     \* MainView state
    propEdges,       \* MainView state
    expandedLevels,  \* MainView ref: expanded marks per level
    uploads,         \* App: the change events so far, with their file reads
    project,         \* HookExtractor: the files of the last setProject
    data,            \* App state: the data on display
    calls            \* the calls the upload callbacks have made, in order

graphVars == <<children, falseChildren, produced>>
queryVars == <<visitStart, emitted, roots>>
layoutVars == <<componentNodes, maxLevel, componentEdges>>
appVars == <<uploads, project, data, calls>>
viewVars == <<effectNodes, propNodes, stateNodes, effectEdges, propEdges>>
vars == <<children, falseChildren, produced, phase, visitStart, emitted,
          roots, componentNodes, maxLevel, componentEdges, entities,
          effectNodes, propNodes, stateNodes, effectEdges, propEdges,
          expandedLevels, uploads, project, data, calls>>

\* ------------------------------------------------------------ sequences
Range(s) == {s[i] : i \in 1..Len(s)}

NoDup(s) == \A i, j \in 1..Len(s) : i # j => s[i] # s[j]

\* Array.prototype.includes
Includes(s, x) == \E i \in 1..Len(s) : s[i] = x

\* index of the first element with the id, 0 when there is none (Array.find)
RECURSIVE FindIndexFrom(_, _, _)
FindIndexFrom(s, id, i) ==
    IF i > Len(s) THEN 0
    ELSE IF s[i].id = id THEN i
    ELSE FindIndexFrom(s, id, i + 1)

FindIndex(s, id) == FindIndexFrom(s, id, 1)

\* the later operand whatever the earlier one
Latter(a, b) == b

Max(a, b) == IF a >= b THEN a ELSE b

\* the nesting and reference relations the extractor has recorded so far
EdgeCount(g, f) ==
    LET RECURSIVE Sum(_)
        Sum(c) == IF c = 0 THEN 0 ELSE Len(g[c]) + Cardinality(f[c]) + Sum(c - 1)
    IN Sum(NumComp)

\* -------------------------------------------------- Query/Traversal API
\* visitDecendent(component, callback): depth-first over children with a
\* visited-id set kept for the call; acc is the sequence of components the
\* callback has received so far, and its elements are the visited ids.
RECURSIVE VisitChildren(_, _, _, _)
VisitChildren(g, node, i, acc) ==
    IF i > Len(g[node]) THEN acc
    ELSE LET child == g[node][i]
         IN IF Includes(acc, child)
            THEN VisitChildren(g, node, i + 1, acc)
            ELSE VisitChildren(g, node, i + 1,
                               VisitChildren(g, child, 1, Append(acc, child)))

\* a traversal that marks the start component visited up front, so that the
\* start is never emitted
visitDecendentMarkStart(g, component) ==
    LET RECURSIVE Walk(_, _, _)
        Walk(node, i, acc) ==
            IF i > Len(g[node]) THEN acc
            ELSE LET child == g[node][i]
                 IN IF Includes(acc, child) \/ child = component
                    THEN Walk(node, i + 1, acc)
                    ELSE Walk(node, i + 1, Walk(child, 1, Append(acc, child)))
    IN Walk(component, 1, <<>>)

visitDecendent(g, component) == VisitChildren(g, component, 1, <<>>)

countDecendent(g, component) == Len(visitDecendent(g, component))

\* -------------------------------------------------------------- findRoots
\* first forEach of findRoots: visited after components i..NumComp
RECURSIVE CollectVisited(_, _, _)
CollectVisited(g, i, visited) ==
    IF i > NumComp THEN visited
    ELSE IF Includes(visited, i)
         THEN CollectVisited(g, i + 1, visited)
         ELSE CollectVisited(g, i + 1, visited \o visitDecendent(g, i))

\* second forEach of findRoots: the components not visited, in list order
RECURSIVE CollectRoots(_, _, _)
CollectRoots(visited, i, acc) ==
    IF i > NumComp THEN acc
    ELSE IF ~Includes(visited, i)
         THEN CollectRoots(visited, i + 1, Append(acc, i))
         ELSE CollectRoots(visited, i + 1, acc)

findRoots(g) == CollectRoots(CollectVisited(g, 1, <<>>), 1, <<>>)


\* ------------------------------------------------------ layout effect
\* node.children.sort((a, b) => countDecendent(b) - countDecendent(a)):
\* Array.prototype.sort is stable, so the result is that of an insertion
\* sort that puts an element after the elements it does not precede.
RECURSIVE InsertByCount(_, _, _)
InsertByCount(g, sorted, x) ==
    IF sorted = <<>> THEN <<x>>
    ELSE IF countDecendent(g, x) - countDecendent(g, Head(sorted)) > 0
         THEN <<x>> \o sorted
         ELSE <<Head(sorted)>> \o InsertByCount(g, Tail(sorted), x)

RECURSIVE SortFrom(_, _, _, _)
SortFrom(g, s, i, sorted) ==
    IF i > Len(s) THEN sorted
    ELSE SortFrom(g, s, i + 1, InsertByCount(g, sorted, s[i]))

\* the comparator with its operands exchanged: ascending counts
SortChildrenAscending(g, s) ==
    LET RECURSIVE Ins(_, _)
        Ins(sorted, x) ==
            IF sorted = <<>> THEN <<x>>
            ELSE IF countDecendent(g, Head(sorted)) - countDecendent(g, x) > 0
                 THEN <<x>> \o sorted
                 ELSE <<Head(sorted)>> \o Ins(Tail(sorted), x)
        RECURSIVE Go(_, _)
        Go(i, sorted) == IF i > Len(s) THEN sorted ELSE Go(i + 1, Ins(sorted, s[i]))
    IN Go(1, <<>>)

SortChildren(g, s) == SortFrom(g, s, 1, <<>>)

\* The state the recursion of convertComponentToMark works on: newNodes,
\* index, maxLevel, the children arrays it sorts in place, and whether the
\* call stack has overflowed.
LayoutStart(g) ==
    [newNodes |-> <<>>, index |-> 0, maxLevel |-> 0, children |-> g,
     overflow |-> FALSE]

Origin == [x |-> 0, y |-> 0]

\* initialPosition, translatedPosition and size are set later (the level
\* loop, expandComponent) and not read before
NewMark(node, level, index) ==
    [id |-> node, type |-> "component", level |-> level, index |-> index,
     position |-> Origin, initialPosition |-> Origin,
     translatedPosition |-> Origin, size |-> [width |-> 0, height |-> 0]]

RECURSIVE convertComponentToMark(_, _, _, _)
RECURSIVE ForEachChild(_, _, _, _, _)

\* node.children.forEach((child) => convertComponentToMark(child, level + 1))
ForEachChild(st, node, i, level, depth) ==
    IF st.overflow \/ i > Len(st.children[node]) THEN st
    ELSE ForEachChild(
             convertComponentToMark(st, st.children[node][i], level + 1, depth + 1),
             node, i + 1, level, depth)

convertComponentToMark(st, node, level, depth) ==
    IF depth > MaxStack THEN [st EXCEPT !.overflow = TRUE]
    ELSE LET t == FindIndex(st.newNodes, node)
             marked ==
                 IF t = 0
                 THEN [st EXCEPT !.newNodes = Append(@, NewMark(node, level, st.index)),
                                 !.index = @ + 1]
                 ELSE [st EXCEPT !.newNodes[t].level = Max(@, level)]
             sorted ==
                 [marked EXCEPT !.maxLevel = Max(@, level),
                                !.children[node] = SortChildren(marked.children, @)]
         IN ForEachChild(sorted, node, 1, level, depth)

\* rootComponents.forEach((root) => convertComponentToMark(root, 0))
RECURSIVE ForEachRoot(_, _, _)
ForEachRoot(st, rootComponents, i) ==
    IF st.overflow \/ i > Len(rootComponents) THEN st
    ELSE ForEachRoot(convertComponentToMark(st, rootComponents[i], 0, 1),
                     rootComponents, i + 1)

BuildMarks(g) == ForEachRoot(LayoutStart(g), findRoots(g), 1)

\* for (level = 0; level <= maxLevel; level++): the i-th mark of a level, in
\* newNodes order, is placed at (10 + 200 * level, 10 + 100 * i)
PlaceMarks(newNodes) ==
    [k \in 1..Len(newNodes) |->
        LET level == newNodes[k].level
            i == Cardinality({j \in 1..(k - 1) : newNodes[j].level = level})
            at == [x |-> 10 + 200 * level, y |-> 10 + 100 * i]
        IN [newNodes[k] EXCEPT !.position = at, !.initialPosition = at,
                               !.translatedPosition = Origin]]

\* the component links of the layout effect: one per child, one (animated)
\* per false child
ComponentLinks(g, f) ==
    UNION {{[source |-> c, target |-> g[c][i], animated |-> FALSE] :
               i \in 1..Len(g[c])} : c \in Comp}
    \cup UNION {{[source |-> c, target |-> d, animated |-> TRUE] :
                    d \in f[c]} : c \in Comp}

\* ------------------------------------------------------------ the state
EmptyGraph == [c \in Comp |-> <<>>]

NoEntities == [props |-> <<>>, states |-> <<>>, effects |-> <<>>]

\* App before any change event: no upload, nothing on display
NoApp ==
    /\ uploads = <<>>
    /\ project = <<>>
    /\ data = [shown |-> FALSE, sources |-> <<>>]
    /\ calls = <<>>

Init ==
    /\ children = EmptyGraph
    /\ falseChildren = [c \in Comp |-> {}]
    /\ produced = EmptyGraph
    /\ phase = "extract"
    /\ visitStart = 0
    /\ emitted = <<>>
    /\ roots = <<>>
    /\ componentNodes = <<>>
    /\ maxLevel = 0
    /\ componentEdges = {}
    /\ entities = [c \in Comp |-> NoEntities]
    /\ effectNodes = <<>>
    /\ propNodes = <<>>
    /\ stateNodes = <<>>
    /\ effectEdges = <<>>
    /\ propEdges = <<>>
    /\ expandedLevels = <<>>
    /\ NoApp

\* Graph Builder: component child is nested in the template of parent
AddChild(parent, child) ==
    /\ phase = "extract"
    /\ ~Includes(children[parent], child)
    /\ child \notin falseChildren[parent]
    /\ EdgeCount(children, falseChildren) < MaxEdges
    /\ children' = [children EXCEPT ![parent] = Append(@, child)]
    /\ produced' = children'
    /\ UNCHANGED <<falseChildren, phase, queryVars, layoutVars, entities,
                   viewVars, expandedLevels, appVars>>

\* Graph Builder: component child is referenced by parent outside its markup
AddFalseChild(parent, child) ==
    /\ phase = "extract"
    /\ ~Includes(children[parent], child)
    /\ child \notin falseChildren[parent]
    /\ EdgeCount(children, falseChildren) < MaxEdges
    /\ falseChildren' = [falseChildren EXCEPT ![parent] = @ \cup {child}]
    /\ UNCHANGED <<children, produced, phase, queryVars, layoutVars, entities,
                   viewVars, expandedLevels, appVars>>

\* a consumer calls extractor.visitDecendent(component, callback)
Visit(component) ==
    /\ phase = "extract"
    /\ phase' = "visited"
    /\ visitStart' = component
    /\ emitted' = visitDecendent(children, component)
    /\ UNCHANGED <<graphVars, roots, layoutVars, entities, viewVars,
                   expandedLevels, appVars>>

\* a consumer calls findRoots(components, extractor)
FindRootsCall ==
    /\ phase = "extract"
    /\ phase' = "rooted"
    /\ roots' = findRoots(children)
    /\ UNCHANGED <<graphVars, visitStart, emitted, layoutVars, entities,
                   viewVars, expandedLevels, appVars>>

\* MainView's layout effect, when it returns
LayoutDone ==
    /\ phase = "extract"
    /\ LET st == BuildMarks(children)
       IN /\ ~st.overflow
          /\ phase' = "laidout"
          /\ children' = st.children
          /\ componentNodes' = PlaceMarks(st.newNodes)
          /\ maxLevel' = st.maxLevel
          /\ expandedLevels' = [level \in 0..st.maxLevel |-> 0]
          /\ componentEdges' = ComponentLinks(st.children, falseChildren)
    /\ roots' = findRoots(children)
    /\ UNCHANGED <<falseChildren, produced, visitStart, emitted, entities,
                   viewVars, appVars>>

\* MainView's layout effect, when the recursion exhausts the call stack: the
\* effect throws before setComponentNodes, the sorts done so far stay
LayoutOverflow ==
    /\ phase = "extract"
    /\ LET st == BuildMarks(children)
       IN /\ st.overflow
          /\ phase' = "overflow"
          /\ children' = st.children
    /\ roots' = findRoots(children)
    /\ UNCHANGED <<falseChildren, produced, visitStart, emitted, layoutVars,
                   entities, viewVars, expandedLevels, appVars>>

Next ==
    \/ \E p, c \in Comp : AddChild(p, c)
    \/ \E p, c \in Comp : AddFalseChild(p, c)
    \/ \E c \in Comp : Visit(c)
    \/ FindRootsCall
    \/ LayoutDone
    \/ LayoutOverflow

Spec == Init /\ [][Next]_vars


\* ------------------------------------------------------------------ ids
\* An id is the sequence of the parts that its text has between the dashes:
\* "state-3" is <<"state", 3>>, "setter-state-3" is <<"setter", "state", 3>>.
CompId(c) == <<"component", c>>
PropId(n) == <<"prop", n>>
StateId(n) == <<"state", n>>
EffectId(n) == <<"effect", n>>
\* the reference to the setter paired with state-<n> (spec 6)
SetterId(n) == <<"setter">> \o StateId(n)

\* String.prototype.startsWith with a kind tag
StartsWith(id, tag) == Len(id) > 0 /\ Head(id) = tag

\* String.prototype.replace(from, to) with a string pattern: the first
\* occurrence only
RECURSIVE ReplaceFirst(_, _, _)
ReplaceFirst(id, from, to) ==
    IF id = <<>> THEN <<>>
    ELSE IF Head(id) = from THEN <<to>> \o Tail(id)
    ELSE <<Head(id)>> \o ReplaceFirst(Tail(id), from, to)

\* ref.replace("setter", "state") of convertPropEdges
SetterToState(ref) == ReplaceFirst(ref, "setter", "state")

RECURSIVE Flatten(_)
Flatten(ss) == IF ss = <<>> THEN <<>> ELSE Head(ss) \o Flatten(Tail(ss))

\* Array.prototype.filter by a set of kept indices
RECURSIVE KeepFrom(_, _, _)
KeepFrom(s, keep, i) ==
    IF i > Len(s) THEN <<>>
    ELSE (IF i \in keep THEN <<s[i]>> ELSE <<>>) \o KeepFrom(s, keep, i + 1)

Keep(s, keep) == KeepFrom(s, keep, 1)

HasId(s, id) == \E i \in 1..Len(s) : s[i].id = id

\* ------------------------------------------------- marks of a component
convertPropNodes(c) ==
    [i \in 1..Len(entities[c].props) |->
        [id |-> entities[c].props[i].id, type |-> "prop", parentId |-> CompId(c),
         position |-> [x |-> 0, y |-> topMargin + (i - 1) * innerMarkGap]]]

convertStateNodes(c) ==
    [i \in 1..Len(entities[c].states) |->
        [id |-> entities[c].states[i].id, type |-> "state", parentId |-> CompId(c),
         position |-> [x |-> 300, y |-> topMargin + (i - 1) * innerMarkGap]]]

convertEffectNodes(c) ==
    [i \in 1..Len(entities[c].effects) |->
        [id |-> entities[c].effects[i].id, type |-> "effect", parentId |-> CompId(c),
         position |-> [x |-> 125, y |-> topMargin + innerMarkGap * (i - 1)]]]

convertEffectEdges(c) ==
    Flatten([k \in 1..Len(entities[c].effects) |->
        LET effect == entities[c].effects[k]
        IN [d \in 1..Len(effect.dependencyIds) |->
               [id |-> <<effect.id, effect.dependencyIds[d]>>,
                source |-> effect.dependencyIds[d], target |-> effect.id,
                animated |-> StartsWith(effect.dependencyIds[d], "state"),
                component |-> CompId(c)]]
           \o
           [h \in 1..Len(effect.handlingTargetIds) |->
               [id |-> <<effect.id, effect.handlingTargetIds[h]>>,
                source |-> effect.id, target |-> effect.handlingTargetIds[h],
                animated |-> StartsWith(effect.handlingTargetIds[h], "prop"),
                component |-> CompId(c)]]])

\* the edges of one reference of one prop: none or one
RefEdge(c, prop, ref, currentPropEdges, currentStateNodes, currentPropNodes) ==
    IF StartsWith(ref, "setter")
    THEN LET nodeId == SetterToState(ref)
         IN IF ~HasId(currentStateNodes, nodeId) THEN <<>>
            ELSE IF HasId(currentPropEdges, <<ref, prop.id>>) THEN <<>>
            ELSE <<[id |-> <<ref, prop.id>>, source |-> nodeId, target |-> prop.id,
                    refRoot |-> nodeId, propRoot |-> CompId(c),
                    sourceHandle |-> "setter"]>>
    ELSE IF ~(HasId(currentStateNodes, ref) \/ HasId(currentPropNodes, ref)) THEN <<>>
         ELSE IF HasId(currentPropEdges, <<ref, prop.id>>) THEN <<>>
         ELSE <<[id |-> <<ref, prop.id>>, source |-> ref, target |-> prop.id,
                 refRoot |-> ref, propRoot |-> CompId(c),
                 sourceHandle |-> "none"]>>

convertPropEdges(nodes, currentPropEdges, currentStateNodes, currentPropNodes) ==
    Flatten([k \in 1..Len(nodes) |->
        IF nodes[k].type # "expanded" THEN <<>>
        ELSE LET c == nodes[k].id
             IN Flatten([j \in 1..Len(entities[c].props) |->
                    LET prop == entities[c].props[j]
                    IN Flatten([r \in 1..Len(prop.references) |->
                           RefEdge(c, prop, prop.references[r], currentPropEdges,
                                   currentStateNodes, currentPropNodes)])])])

\* ------------------------------------------------------ expand, collapse
calcNewPosition(node) ==
    [x |-> node.initialPosition.x + node.translatedPosition.x,
     y |-> node.initialPosition.y + node.translatedPosition.y]

expandedHeight(c) ==
    Max(Max(Max(Len(entities[c].props), Len(entities[c].effects)),
            Len(entities[c].states)) * innerMarkGap + 20,
        baseWidth)

\* an expansion that shifts the deeper levels whether or not the target's
\* level already has an expanded mark
expandComponentAlwaysShift(targetId, currentNodes, levels) ==
    LET t == currentNodes[FindIndex(currentNodes, targetId)]
        targetNode ==
            [t EXCEPT !.type = "expanded",
                      !.size = [width |-> baseExpadnedWidth,
                                height |-> expandedHeight(targetId)]]
    IN [k \in 1..Len(currentNodes) |->
           LET node == currentNodes[k]
           IN IF node.id = targetId
              THEN [targetNode EXCEPT !.position = calcNewPosition(targetNode)]
              ELSE LET dx == IF node.level > targetNode.level
                             THEN baseExpadnedWidth - baseWidth ELSE 0
                       dy == IF node.level = targetNode.level
                                /\ node.index > targetNode.index
                             THEN targetNode.size.height - baseWidth ELSE 0
                       updateNode ==
                           [node EXCEPT !.translatedPosition =
                               [x |-> @.x + dx, y |-> @.y + dy]]
                   IN [updateNode EXCEPT !.position = calcNewPosition(updateNode)]]

\* expandComponent(targetNode, currentNodes), reading expandedLevels.current
expandComponent(targetId, currentNodes, levels) ==
    LET t == currentNodes[FindIndex(currentNodes, targetId)]
        targetNode ==
            [t EXCEPT !.type = "expanded",
                      !.size = [width |-> baseExpadnedWidth,
                                height |-> expandedHeight(targetId)]]
    IN [k \in 1..Len(currentNodes) |->
           LET node == currentNodes[k]
           IN IF node.id = targetId
              THEN [targetNode EXCEPT !.position = calcNewPosition(targetNode)]
              ELSE LET dx == IF levels[targetNode.level] = 0
                                /\ node.level > targetNode.level
                             THEN baseExpadnedWidth - baseWidth ELSE 0
                       dy == IF node.level = targetNode.level
                                /\ node.index > targetNode.index
                             THEN targetNode.size.height - baseWidth ELSE 0
                       updateNode ==
                           [node EXCEPT !.translatedPosition =
                               [x |-> @.x + dx, y |-> @.y + dy]]
                   IN [updateNode EXCEPT !.position = calcNewPosition(updateNode)]]

\* shrinkComponent(targetNode, currentNodes), reading expandedLevels.current
shrinkComponent(targetId, currentNodes, levels) ==
    LET t == currentNodes[FindIndex(currentNodes, targetId)]
        targetNode == [t EXCEPT !.type = "component"]
    IN [k \in 1..Len(currentNodes) |->
           LET node == currentNodes[k]
           IN IF node.id = targetId
              THEN [targetNode EXCEPT !.position = calcNewPosition(targetNode)]
              ELSE LET dx == IF levels[targetNode.level] = 0
                                /\ node.level > targetNode.level
                             THEN baseExpadnedWidth - baseWidth ELSE 0
                       dy == IF node.level = targetNode.level
                                /\ node.index > targetNode.index
                             THEN targetNode.size.height - baseWidth ELSE 0
                       newNode ==
                           [node EXCEPT !.translatedPosition =
                               [x |-> @.x - dx, y |-> @.y - dy]]
                   IN [newNode EXCEPT !.position = calcNewPosition(newNode)]]

removeEffectNodes(c, currentEffectNodes) ==
    Keep(currentEffectNodes,
         {i \in 1..Len(currentEffectNodes) :
             ~HasId(entities[c].effects, currentEffectNodes[i].id)})

removePropNodes(c, currentPropNodes) ==
    Keep(currentPropNodes,
         {i \in 1..Len(currentPropNodes) :
             ~HasId(entities[c].props, currentPropNodes[i].id)})

\* a removal that looks for the component's first state only
removeStateNodesFirstOnly(c, currentStateNodes) ==
    Keep(currentStateNodes,
         {i \in 1..Len(currentStateNodes) :
             currentStateNodes[i].id # entities[c].states[1].id})

removeStateNodes(c, currentStateNodes) ==
    Keep(currentStateNodes,
         {i \in 1..Len(currentStateNodes) :
             ~HasId(entities[c].states, currentStateNodes[i].id)})

removeEffectEdges(c, currentEffectEdges) ==
    Keep(currentEffectEdges,
         {i \in 1..Len(currentEffectEdges) :
             currentEffectEdges[i].component # CompId(c)})

removePropEdges(c, currentPropEdges) ==
    Keep(currentPropEdges,
         {i \in 1..Len(currentPropEdges) :
             /\ currentPropEdges[i].propRoot # CompId(c)
             /\ currentPropEdges[i].refRoot # CompId(c)})

\* --------------------------------------------------- MainView handlers
NodeOf(c) == componentNodes[FindIndex(componentNodes, c)]

\* onNodeClick on a component mark: expand
ClickExpand(c) ==
    LET node == NodeOf(c)
        updatedNodes == expandComponent(c, componentNodes, expandedLevels)
        updatedPropNodes == propNodes \o convertPropNodes(c)
        updatedStateNodes == stateNodes \o convertStateNodes(c)
    IN /\ node.type = "component"
       /\ componentNodes' = updatedNodes
       /\ propNodes' = updatedPropNodes
       /\ stateNodes' = updatedStateNodes
       /\ effectNodes' = effectNodes \o convertEffectNodes(c)
       /\ effectEdges' = effectEdges \o convertEffectEdges(c)
       /\ propEdges' = propEdges \o convertPropEdges(updatedNodes, propEdges,
                                                     updatedStateNodes,
                                                     updatedPropNodes)
       /\ expandedLevels' = [expandedLevels EXCEPT ![node.level] = @ + 1]

\* a collapse that shrinks before it decrements expandedLevels, so that
\* shrinkComponent reads the count with the target still in it
ClickCollapseShrinkFirst(c) ==
    LET node == NodeOf(c)
    IN /\ node.type = "expanded"
       /\ componentNodes' = shrinkComponent(c, componentNodes, expandedLevels)
       /\ expandedLevels' = [expandedLevels EXCEPT ![node.level] = @ - 1]
       /\ propEdges' = removePropEdges(c, propEdges)
       /\ effectEdges' = removeEffectEdges(c, effectEdges)
       /\ propNodes' = removePropNodes(c, propNodes)
       /\ stateNodes' = removeStateNodes(c, stateNodes)
       /\ effectNodes' = removeEffectNodes(c, effectNodes)

\* onNodeClick on an expanded mark: collapse
ClickCollapse(c) ==
    LET node == NodeOf(c)
        levels == [expandedLevels EXCEPT ![node.level] = @ - 1]
    IN /\ node.type = "expanded"
       /\ expandedLevels' = levels
       /\ propEdges' = removePropEdges(c, propEdges)
       /\ effectEdges' = removeEffectEdges(c, effectEdges)
       /\ propNodes' = removePropNodes(c, propNodes)
       /\ stateNodes' = removeStateNodes(c, stateNodes)
       /\ effectNodes' = removeEffectNodes(c, effectNodes)
       /\ componentNodes' = shrinkComponent(c, componentNodes, levels)

onNodeClick(c) ==
    /\ phase = "laidout"
    /\ HasId(componentNodes, c)
    /\ \/ ClickExpand(c)
       \/ ClickCollapse(c)
    /\ UNCHANGED <<graphVars, phase, queryVars, maxLevel, componentEdges, entities,
                   appVars>>

\* onNodeClick on a prop, state or effect mark returns at once
onInnerNodeClick ==
    /\ phase = "laidout"
    /\ propNodes \o stateNodes \o effectNodes # <<>>
    /\ UNCHANGED vars

\* the locals of expandAllComponents before its loop
ExpandAllStart ==
    [nodes |-> componentNodes, propNodes |-> propNodes, stateNodes |-> stateNodes,
     effectNodes |-> effectNodes, effectEdges |-> effectEdges,
     propEdges |-> propEdges, levels |-> expandedLevels]

\* componentNodes.forEach of expandAllComponents, from the k-th mark on
RECURSIVE ExpandAllFrom(_, _)
ExpandAllFrom(acc, k) ==
    IF k > Len(componentNodes) THEN acc
    ELSE IF componentNodes[k].type # "component" THEN ExpandAllFrom(acc, k + 1)
    ELSE LET c == componentNodes[k].id
             nodes == expandComponent(c, acc.nodes, acc.levels)
             updatedPropNodes == acc.propNodes \o convertPropNodes(c)
             updatedStateNodes == acc.stateNodes \o convertStateNodes(c)
         IN ExpandAllFrom(
                [nodes |-> nodes,
                 propNodes |-> updatedPropNodes,
                 stateNodes |-> updatedStateNodes,
                 effectNodes |-> acc.effectNodes \o convertEffectNodes(c),
                 effectEdges |-> acc.effectEdges \o convertEffectEdges(c),
                 propEdges |-> acc.propEdges
                     \o convertPropEdges(nodes, acc.propEdges, updatedStateNodes,
                                         updatedPropNodes),
                 levels |-> [acc.levels EXCEPT ![componentNodes[k].level] = @ + 1]],
                k + 1)

expandAllComponents ==
    /\ phase = "laidout"
    /\ LET acc == ExpandAllFrom(ExpandAllStart, 1)
       IN /\ componentNodes' = acc.nodes
          /\ propNodes' = acc.propNodes
          /\ stateNodes' = acc.stateNodes
          /\ effectNodes' = acc.effectNodes
          /\ effectEdges' = acc.effectEdges
          /\ propEdges' = acc.propEdges
          /\ expandedLevels' = acc.levels
    /\ UNCHANGED <<graphVars, phase, queryVars, maxLevel, componentEdges, entities,
                   appVars>>

\* componentNodes.forEach of shrinkAllComponents, from the k-th mark on
RECURSIVE ShrinkAllFrom(_, _)
ShrinkAllFrom(acc, k) ==
    IF k > Len(componentNodes) THEN acc
    ELSE IF componentNodes[k].type # "expanded" THEN ShrinkAllFrom(acc, k + 1)
    ELSE LET levels == [acc.levels EXCEPT ![componentNodes[k].level] = @ - 1]
         IN ShrinkAllFrom(
                [nodes |-> shrinkComponent(componentNodes[k].id, acc.nodes, levels),
                 levels |-> levels],
                k + 1)

shrinkAllComponents ==
    /\ phase = "laidout"
    /\ LET acc == ShrinkAllFrom([nodes |-> componentNodes,
                                 levels |-> expandedLevels], 1)
       IN /\ componentNodes' = acc.nodes
          /\ expandedLevels' = acc.levels
    /\ propNodes' = <<>>
    /\ stateNodes' = <<>>
    /\ effectNodes' = <<>>
    /\ effectEdges' = <<>>
    /\ propEdges' = <<>>
    /\ UNCHANGED <<graphVars, phase, queryVars, maxLevel, componentEdges, entities,
                   appVars>>

\* ------------------------------------------- the projects shown in views
\* component 1 nests component 2, which nests component 3, ...
ChainGraph == [c \in Comp |-> IF c < NumComp THEN <<c + 1>> ELSE <<>>]

\* component 1 nests every other component
StarGraph == [c \in Comp |-> IF c = 1 THEN [i \in 1..(NumComp - 1) |-> i + 1] ELSE <<>>]

\* every component but the last nests the last one
FanInGraph == [c \in Comp |-> IF c < NumComp THEN <<NumComp>> ELSE <<>>]

\* the component whose template instantiates c (0: none)
ParentOf(g, c) ==
    IF \E q \in Comp : Includes(g[q], c)
    THEN CHOOSE q \in Comp : Includes(g[q], c)
    ELSE 0

\* what a call site in the parent's scope can pass to a prop: a state value,
\* a state setter, a prop of the parent
PassedFrom(q) == <<StateId(q), SetterId(q), PropId(q)>>

EffectsOf(c, kind) ==
    IF kind = "state"
    THEN <<[id |-> EffectId(c), dependencyIds |-> <<StateId(c)>>,
            handlingTargetIds |-> <<SetterId(c)>>]>>
    ELSE IF kind = "prop"
    THEN <<[id |-> EffectId(c), dependencyIds |-> <<PropId(c)>>,
            handlingTargetIds |-> <<PropId(c)>>]>>
    ELSE <<>>

\* one prop per component, bound at the call site to the picked ones of what
\* the parent can pass; two states for component 1 and one for the others;
\* the effects of the kind
EntitiesFor(g, pick, kind) ==
    [c \in Comp |->
        [props |->
            <<[id |-> PropId(c),
               references |->
                   IF ParentOf(g, c) = 0 THEN <<>>
                   ELSE Keep(PassedFrom(ParentOf(g, c)), pick)]>>,
         states |->
            IF c = 1 THEN <<[id |-> StateId(1)], [id |-> StateId(NumComp + 1)]>>
            ELSE <<[id |-> StateId(c)]>>,
         effects |-> EffectsOf(c, kind)]]

InitView ==
    /\ children \in {ChainGraph, StarGraph, FanInGraph}
    /\ produced = children
    /\ falseChildren = [c \in Comp |-> {}]
    /\ entities \in {EntitiesFor(children, pick, kind) :
                        pick \in SUBSET DOMAIN PassedFrom(1),
                        kind \in {"none", "state", "prop"}}
    /\ phase = "extract"
    /\ visitStart = 0
    /\ emitted = <<>>
    /\ roots = <<>>
    /\ componentNodes = <<>>
    /\ maxLevel = 0
    /\ componentEdges = {}
    /\ effectNodes = <<>>
    /\ propNodes = <<>>
    /\ stateNodes = <<>>
    /\ effectEdges = <<>>
    /\ propEdges = <<>>
    /\ expandedLevels = <<>>
    /\ NoApp

NextView ==
    \/ LayoutDone
    \/ \E c \in Comp : onNodeClick(c)
    \/ onInnerNodeClick
    \/ expandAllComponents
    \/ shrinkAllComponents

SpecView == InitView /\ [][NextView]_vars

\* ------------------------------------------------------------------ App
\* The text of a path or a file name is the sequence of its parts.
StrIncludes(text, part) == \E i \in 1..Len(text) : text[i] = part

EndsWith(text, part) == Len(text) > 0 /\ text[Len(text)] = part

\* the files of the directory behind the file input, in FileList order
DirectoryListing ==
    <<[webkitRelativePath |-> <<"proj/", "style", ".css">>,
       name |-> <<"style", ".css">>, content |-> "css"],
      [webkitRelativePath |-> <<"proj/", "App", ".jsx">>,
       name |-> <<"App", ".jsx">>, content |-> "App"],
      [webkitRelativePath |-> <<"proj/", "node_modules", "/lib/", "index", ".js">>,
       name |-> <<"index", ".js">>, content |-> "lib"],
      [webkitRelativePath |-> <<"proj/", "index", ".js">>,
       name |-> <<"index", ".js">>, content |-> "index"]>>

\* a filter on the file name alone, which lets the dependencies' sources in
InScopeByName(file) == EndsWith(file.name, ".js") \/ EndsWith(file.name, ".jsx")

\* the condition under which handleFileUpload reads a file
InScope(file) ==
    /\ ~StrIncludes(file.webkitRelativePath, "node_modules")
    /\ (EndsWith(file.name, ".js") \/ EndsWith(file.name, ".jsx"))

\* the value of files[i].text().then((text) => ({source, content}))
ReadResult(file) == [source |-> file.webkitRelativePath, content |-> file.content]

\* the files whose text() promise was pushed, in the order of the pushes
PromiseIndices(up) ==
    Keep([i \in 1..Len(up.files) |-> i],
         {i \in 1..Len(up.files) : up.reads[i] # "skip"})

\* results in the order in which the reads completed
PromiseAllValuesByCompletion(up) ==
    [k \in 1..Len(up.order) |-> ReadResult(up.files[up.order[k]])]

\* the value Promise.all fulfils with: the values in the promises' order
PromiseAllValues(up) ==
    [k \in 1..Len(PromiseIndices(up)) |->
        ReadResult(up.files[PromiseIndices(up)[k]])]

\* fulfilled as soon as one read has completed
AnyFulfilled(up) == \E i \in 1..Len(up.files) : up.reads[i] = "read"

\* Promise.all fulfils when every promise has
AllFulfilled(up) == \A i \in 1..Len(up.files) : up.reads[i] \in {"skip", "read"}

\* Promise.all rejects when one promise has
AnyRejected(up) == \E i \in 1..Len(up.files) : up.reads[i] = "failed"

\* HookExtractor.toJson followed by JSON.parse: what the project yields
ToData(files) ==
    [shown |-> TRUE, sources |-> [k \in 1..Len(files) |-> files[k].source]]

Call(op, u) == [op |-> op, upload |-> u]

\* the callback of Promise.all(promises).then: it runs to its end
ThenCallback(u, results) ==
    /\ project' = results
    /\ calls' = calls \o <<Call("setProject", u), Call("print", u),
                           Call("toJson", u), Call("toJson", u),
                           Call("setData", u)>>
    /\ data' = ToData(results)

\* the reactions of Promise.all of upload u, once ups holds the reads' news
React(u, ups) ==
    IF ups[u].state = "waiting" /\ AllFulfilled(ups[u])
    THEN /\ uploads' = [ups EXCEPT ![u].state = "fulfilled"]
         /\ ThenCallback(u, PromiseAllValues(ups[u]))
    ELSE IF ups[u].state = "waiting" /\ AnyRejected(ups[u])
    THEN /\ uploads' = [ups EXCEPT ![u].state = "rejected"]
         /\ UNCHANGED <<project, data, calls>>
    ELSE /\ uploads' = ups
         /\ UNCHANGED <<project, data, calls>>

nonAppVars ==
    <<children, falseChildren, produced, phase, visitStart, emitted, roots,
      componentNodes, maxLevel, componentEdges, entities, effectNodes,
      propNodes, stateNodes, effectEdges, propEdges, expandedLevels>>

\* handleFileUpload: a change event with the files at the picked places of
\* the directory
handleFileUpload(picked) ==
    /\ Len(uploads) < MaxUploads
    /\ Cardinality(picked) <= MaxFiles
    /\ LET files == Keep(DirectoryListing, picked)
           up == [files |-> files,
                  reads |-> [i \in 1..Len(files) |->
                                IF InScope(files[i]) THEN "pending" ELSE "skip"],
                  order |-> <<>>,
                  state |-> "waiting"]
       IN React(Len(uploads) + 1, Append(uploads, up))
    /\ UNCHANGED nonAppVars

\* the text of file i of upload u has been read
ReadDone(u, i) ==
    /\ u \in 1..Len(uploads)
    /\ i \in 1..Len(uploads[u].files)
    /\ uploads[u].reads[i] = "pending"
    /\ React(u, [uploads EXCEPT ![u].reads[i] = "read",
                                ![u].order = Append(@, i)])
    /\ UNCHANGED nonAppVars

\* reading file i of upload u has failed
ReadFail(u, i) ==
    /\ u \in 1..Len(uploads)
    /\ i \in 1..Len(uploads[u].files)
    /\ uploads[u].reads[i] = "pending"
    /\ React(u, [uploads EXCEPT ![u].reads[i] = "failed"])
    /\ UNCHANGED nonAppVars

InitApp ==
    /\ NoApp
    /\ children = EmptyGraph
    /\ produced = EmptyGraph
    /\ falseChildren = [c \in Comp |-> {}]
    /\ entities = [c \in Comp |-> NoEntities]
    /\ phase = "extract"
    /\ visitStart = 0
    /\ emitted = <<>>
    /\ roots = <<>>
    /\ componentNodes = <<>>
    /\ maxLevel = 0
    /\ componentEdges = {}
    /\ effectNodes = <<>>
    /\ propNodes = <<>>
    /\ stateNodes = <<>>
    /\ effectEdges = <<>>
    /\ propEdges = <<>>
    /\ expandedLevels = <<>>

NextApp ==
    \/ \E picked \in SUBSET DOMAIN DirectoryListing : handleFileUpload(picked)
    \/ \E u \in 1..MaxUploads, i \in DOMAIN DirectoryListing : ReadDone(u, i)
    \/ \E u \in 1..MaxUploads, i \in DOMAIN DirectoryListing : ReadFail(u, i)

SpecApp == InitApp /\ [][NextApp]_vars

\* ------------------------------------------------------------ reference
\* the components reachable from component over one or more children edges
RECURSIVE Closure(_, _)
Closure(g, S) ==
    LET T == S \cup UNION {Range(g[c]) : c \in S}
    IN IF T = S THEN S ELSE Closure(g, T)

Reach(g, component) == Closure(g, Range(g[component]))

\* position of x in the sequence s (0 when absent)
RECURSIVE PosFrom(_, _, _)
PosFrom(s, x, i) ==
    IF i > Len(s) THEN 0 ELSE IF s[i] = x THEN i ELSE PosFrom(s, x, i + 1)

Pos(s, x) == PosFrom(s, x, 1)

OnCycle(g, c) == c \in Reach(g, c)

\* the components convertComponentToMark is called on: the roots and all
\* that they reach
Visited(g) == Range(findRoots(g)) \cup UNION {Reach(g, r) : r \in Range(findRoots(g))}

\* the call stack is exhausted only by a cycle below a root
OverflowOnlyOnCycle ==
    phase = "overflow" <=>
        (phase \notin {"extract", "visited", "rooted"}
         /\ \E c \in Visited(produced) : OnCycle(produced, c))

\* ----------------------------------------------------------------- C1
\* C1: building the component marks terminates for every component graph,
\* cycles below a root included: the layout effect never ends by exhausting
\* the call stack.
C1_LayoutTerminates == phase # "overflow"

\* ----------------------------------------------------------------- C2
\* C2: root completeness: every component is a root or reachable over
\* children from a root, and not both.
C2_RootCompleteness ==
    phase = "rooted" =>
        \A c \in Comp :
            (c \in Range(roots)) # (\E r \in Range(roots) : c \in Reach(children, r))

\* ----------------------------------------------------------------- C3
\* the roots a traversal started from every component yields (no skipping)
RECURSIVE FullTraversalVisited(_, _)
FullTraversalVisited(g, i) ==
    IF i > NumComp THEN {}
    ELSE Range(visitDecendent(g, i)) \cup FullTraversalVisited(g, i + 1)

\* C3: findRoots returns C iff no component other than C reaches C over
\* children, and that is what a traversal from every component yields.
C3_RootsCharacterised ==
    phase = "rooted" =>
        /\ \A c \in Comp :
               c \in Range(roots) <=>
                   ~\E d \in Comp \ {c} : c \in Reach(children, d)
        /\ Range(roots) = Comp \ FullTraversalVisited(children, 1)

\* the part of C3 that the code satisfies: skipping the traversal of the
\* components already visited leaves the roots what a full traversal yields,
\* namely the components that no component, itself included, reaches
C3_SkipIsSound ==
    phase = "rooted" =>
        /\ Range(roots) = Comp \ FullTraversalVisited(children, 1)
        /\ \A c \in Comp :
               c \in Range(roots) <=> ~\E d \in Comp : c \in Reach(children, d)

\* ----------------------------------------------------------------- C4
\* C4: consumers only read the graph: after the layout effect every
\* children array is what the extractor produced, elements and order.
C4_ConsumersOnlyRead == phase = "laidout" => children = produced

\* ----------------------------------------------------------------- C5
\* C5: a prop reference setter-state-<n> denotes the setter of state-<n>:
\* whenever a component is expanded, one of its props references
\* setter-state-<n> and the state node state-<n> is displayed, propEdges holds
\* a setter edge from node state-<n> to that prop.
C5_SetterEdgeFromState ==
    \A k \in 1..Len(componentNodes) :
        componentNodes[k].type = "expanded" =>
            \A j \in 1..Len(entities[componentNodes[k].id].props) :
                LET prop == entities[componentNodes[k].id].props[j]
                IN \A n \in 1..(2 * NumComp) :
                       (Includes(prop.references, SetterId(n))
                        /\ HasId(stateNodes, StateId(n)))
                       => \E e \in Range(propEdges) :
                              /\ e.source = StateId(n)
                              /\ e.target = prop.id
                              /\ e.sourceHandle = "setter"

\* ----------------------------------------------------------------- C6
\* C6: visitDecendent(c, f) invokes f at most once per component and exactly
\* on the components reachable from c over children (falseChildren are not
\* followed); on the cycle A <-> B that is once on A and once on B.
C6_VisitOncePerReachable ==
    phase = "visited" =>
        /\ NoDup(emitted)
        /\ Range(emitted) = Reach(children, visitStart)

C6_TwoCycleVisited ==
    /\ phase = "visited"
    /\ visitStart = 1
    /\ children[1] = <<2>>
    /\ children[2] = <<1>>
    /\ falseChildren[1] = {3}
    /\ Len(emitted) = 2
    /\ Range(emitted) = {1, 2}

\* ----------------------------------------------------------------- C7
\* C7: after the layout pass the children of every visited component are in
\* non-increasing countDecendent order, and children with equal counts are
\* in the order the extractor discovered them.
C7_ChildrenSortedStable ==
    phase = "laidout" =>
        \A n \in Range(componentNodes) :
            LET s == children[n.id]
                p == produced[n.id]
                cnt(c) == Cardinality(Reach(children, c))
            IN /\ Range(s) = Range(p)
               /\ Len(s) = Len(p)
               /\ \A i, j \in 1..Len(s) :
                      i < j =>
                          /\ cnt(s[i]) >= cnt(s[j])
                          /\ cnt(s[i]) = cnt(s[j]) => Pos(p, s[i]) < Pos(p, s[j])

\* a visited component whose children the sort has put in another order
C7_Reordered ==
    /\ phase = "laidout"
    /\ \E n \in Range(componentNodes) :
           /\ children[n.id] # produced[n.id]
           /\ countDecendent(children, children[n.id][1])
                  > countDecendent(children, children[n.id][2])

\* ------------------------------------------------------- C8, C9, C10
\* the arguments of the setProject call of upload u are what project held
\* right after it; the calls of upload u, as places in calls
CallsOf(u, op) == {k \in 1..Len(calls) : calls[k] = Call(op, u)}

\* the in-scope files of a FileList, in its order
RECURSIVE InScopeSources(_)
InScopeSources(files) ==
    IF files = <<>> THEN <<>>
    ELSE (IF InScope(Head(files)) THEN <<Head(files).webkitRelativePath>> ELSE <<>>)
         \o InScopeSources(Tail(files))

\* the files of upload up whose text was read, in FileList order
RECURSIVE ReadSourcesFrom(_, _)
ReadSourcesFrom(up, i) ==
    IF i > Len(up.files) THEN <<>>
    ELSE (IF up.reads[i] = "read" THEN <<up.files[i].webkitRelativePath>> ELSE <<>>)
         \o ReadSourcesFrom(up, i + 1)

Settled(up) == \A i \in 1..Len(up.files) : up.reads[i] # "pending"

LastUploadCalled == calls[Len(calls)].upload

\* C8: no single file's failure aborts the run: once every read of an upload
\* has ended, one of them in failure, setProject has been invoked for that
\* upload, and if no later callback has run since, the data on display is
\* that of the files that were read.
C8_FailureContained ==
    \A u \in 1..Len(uploads) :
        (Settled(uploads[u]) /\ AnyRejected(uploads[u])) =>
            /\ CallsOf(u, "setProject") # {}
            /\ LastUploadCalled = u =>
                   data = [shown |-> TRUE, sources |-> ReadSourcesFrom(uploads[u], 1)]

\* C9: the list passed to setProject is in the order of the selected files
\* (the in-scope ones), whatever the order in which the reads completed.
\* (project holds the argument of the last setProject call.)
C9_ProjectInFileOrder ==
    calls # <<>> =>
        [k \in 1..Len(project) |-> project[k].source]
            = InScopeSources(uploads[LastUploadCalled].files)

\* an upload whose second promise was fulfilled before its first has called
\* setProject
C9_ReadOutOfOrder ==
    /\ calls # <<>>
    /\ Len(project) = 2
    /\ LET up == uploads[LastUploadCalled]
       IN /\ Len(up.order) = 2
          /\ up.order[1] > up.order[2]

C11_ProjectInScope ==
    /\ calls # <<>> =>
           \A k \in 1..Len(project) :
               \E file \in Range(uploads[LastUploadCalled].files) :
                   /\ project[k].source = file.webkitRelativePath
                   /\ ~StrIncludes(file.webkitRelativePath, "node_modules")
                   /\ (EndsWith(file.name, ".js") \/ EndsWith(file.name, ".jsx"))
    /\ \A u \in 1..Len(uploads) :
           (\A file \in Range(uploads[u].files) :
                \/ StrIncludes(file.webkitRelativePath, "node_modules")
                \/ ~(EndsWith(file.name, ".js") \/ EndsWith(file.name, ".jsx")))
           => /\ CallsOf(u, "setProject") # {}
              /\ LastUploadCalled = u => project = <<>>

\* an upload of a style sheet and a dependency's source, nothing else, has
\* called setProject with the empty list
C11_AllOutOfScope ==
    /\ calls # <<>>
    /\ LET up == uploads[LastUploadCalled]
       IN /\ Len(up.files) = 2
          /\ \E i \in 1..2 : StrIncludes(up.files[i].webkitRelativePath, "node_modules")
          /\ \A i \in 1..2 : up.reads[i] = "skip"
    /\ project = <<>>
    /\ data.shown

\* ----------------------------------------------------------------- C12
\* C12: after any sequence of component clicks, Expand all and Shrink all,
\* every edge of propEdges has its source among the displayed state and prop
\* nodes and its target among the displayed prop nodes (collapsing a
\* component removes the prop edges that leave its state and prop nodes).
C12_PropEdgesDisplayed ==
    \A e \in Range(propEdges) :
        /\ HasId(stateNodes, e.source) \/ HasId(propNodes, e.source)
        /\ HasId(propNodes, e.target)

\* ----------------------------------------------------------------- C13
\* the prop, state and effect nodes displayed for the component with the id
DisplayedFor(componentId) ==
    {n \in Range(propNodes) \cup Range(stateNodes) \cup Range(effectNodes) :
        n.parentId = componentId}

\* C13: every edge that convertEffectEdges produced for an expanded component
\* has its source and its target among the prop, state and effect nodes
\* displayed for that component, the edges to setter-state-<n> included.
C13_EffectEdgesDisplayed ==
    \A e \in Range(effectEdges) :
        /\ \E n \in DisplayedFor(e.component) : n.id = e.source
        /\ \E n \in DisplayedFor(e.component) : n.id = e.target

\* the part of C13 that the code satisfies: the edges to and from props,
\* states and effects, the edges to setters left aside
C13_NonSetterEdgesDisplayed ==
    \A e \in Range(effectEdges) :
        ~StartsWith(e.target, "setter") =>
            /\ \E n \in DisplayedFor(e.component) : n.id = e.source
            /\ \E n \in DisplayedFor(e.component) : n.id = e.target

\* ----------------------------------------------------------------- C14
\* C14: with two upload events, once both pipelines have settled the data on
\* display is the result for the later upload (an earlier upload whose reads
\* end later does not overwrite it), and the data on display is at all times
\* derived from the files of one upload only.
C14_LaterUploadShown ==
    /\ (/\ Len(uploads) = 2
        /\ \A u \in 1..2 : uploads[u].state = "fulfilled")
       => data = ToData(PromiseAllValues(uploads[2]))
    /\ data.shown =>
           \E u \in 1..Len(uploads) :
               data = ToData(PromiseAllValues(uploads[u]))

\* the part of C14 that the code satisfies: what is on display is the result
\* of one upload, the one whose callback ran last
C14_OneUploadShown ==
    data.shown =>
        /\ calls # <<>>
        /\ data = ToData(PromiseAllValues(uploads[LastUploadCalled]))

\* ----------------------------------------------------------------- C15
NoneExpanded ==
    /\ phase = "laidout"
    /\ \A k \in 1..Len(componentNodes) : componentNodes[k].type = "component"

\* the component nodes after a click on the collapsed component c and a
\* second click on it right after
ExpandThenCollapse(c) ==
    LET expanded == expandComponent(c, componentNodes, expandedLevels)
    IN shrinkComponent(c, expanded, expandedLevels)

\* C15: expand and collapse are inverse.  In every state with no component
\* expanded, reached by whatever clicks, Expand all and Shrink all, every
\* component node has translatedPosition (0, 0) and its position is its
\* initialPosition, and the prop, state and effect nodes and the effect edges
\* are empty; and in every state, expanding one collapsed component and
\* collapsing it at once gives every component node its position back.
C15_ExpandCollapseInverse ==
    /\ NoneExpanded =>
           /\ \A k \in 1..Len(componentNodes) :
                  /\ componentNodes[k].translatedPosition = Origin
                  /\ componentNodes[k].position = componentNodes[k].initialPosition
           /\ propNodes = <<>>
           /\ stateNodes = <<>>
           /\ effectNodes = <<>>
           /\ effectEdges = <<>>
    /\ phase = "laidout" =>
           \A k \in 1..Len(componentNodes) :
               componentNodes[k].type = "component" =>
                   LET after == ExpandThenCollapse(componentNodes[k].id)
                   IN \A j \in 1..Len(componentNodes) :
                          /\ after[j].position = componentNodes[j].position
                          /\ after[j].translatedPosition
                                 = componentNodes[j].translatedPosition

\* every component has been expanded (its size was set) and none is now
C15_AllCollapsedAgain ==
    /\ NoneExpanded
    /\ \A k \in 1..Len(componentNodes) :
           componentNodes[k].size.width = baseExpadnedWidth

\* ----------------------------------------------------------------- C16
\* the component nodes of level L whose type is "expanded"
ExpandedAt(L) ==
    {k \in 1..Len(componentNodes) :
        componentNodes[k].level = L /\ componentNodes[k].type = "expanded"}

\* C16: after any sequence of component clicks, Expand all and Shrink all,
\* expandedLevels[L] is, for every level L, the number of component nodes of
\* level L whose type is "expanded" (so never negative), and the x-translation
\* of every node of level M is (baseExpadnedWidth - baseWidth) times the
\* number of levels below M that have an expanded node.
C16_ExpandedLevelsCount ==
    phase = "laidout" =>
        /\ DOMAIN expandedLevels = 0..maxLevel
        /\ \A L \in 0..maxLevel :
               /\ expandedLevels[L] = Cardinality(ExpandedAt(L))
               /\ expandedLevels[L] >= 0
        /\ \A k \in 1..Len(componentNodes) :
               LET M == componentNodes[k].level
                   shifted == {L \in 0..(M - 1) : ExpandedAt(L) # {}}
               IN /\ componentNodes[k].translatedPosition.x
                         = (baseExpadnedWidth - baseWidth) * Cardinality(shifted)
                  /\ componentNodes[k].position.x
                         = componentNodes[k].initialPosition.x
                               + componentNodes[k].translatedPosition.x

\* two expanded nodes on one level with a node on a deeper level, which is
\* shifted once
C16_TwoExpandedOnOneLevel ==
    /\ phase = "laidout"
    /\ \E L \in 0..maxLevel :
           /\ Cardinality(ExpandedAt(L)) = 2
           /\ expandedLevels[L] = 2
           /\ \E k \in 1..Len(componentNodes) :
                  /\ componentNodes[k].level > L
                  /\ componentNodes[k].translatedPosition.x
                         = baseExpadnedWidth - baseWidth

\* ----------------------------------------------------------------- C17
\* the components whose node type is "expanded"
ExpandedComponents ==
    {componentNodes[k].id : k \in {j \in 1..Len(componentNodes) :
                                      componentNodes[j].type = "expanded"}}

\* the ids of the entities of one kind ("props", "states", "effects") of the
\* expanded components, each with its component
OwnedIds(field) ==
    UNION {{<<entities[c][field][i].id, CompId(c)>> :
               i \in 1..Len(entities[c][field])} :
              c \in ExpandedComponents}

\* the (id, parentId) pairs of the displayed nodes, in order
Shown(nodes) == [i \in 1..Len(nodes) |-> <<nodes[i].id, nodes[i].parentId>>]

\* source, target and owner of the effect edges of the expanded components
OwnedEffectEdges ==
    UNION {UNION {{<<effect.dependencyIds[d], effect.id, CompId(c)>> :
                       d \in 1..Len(effect.dependencyIds)}
                  \cup {<<effect.id, effect.handlingTargetIds[h], CompId(c)>> :
                            h \in 1..Len(effect.handlingTargetIds)} :
                  effect \in Range(entities[c].effects)} :
              c \in ExpandedComponents}

\* C17: after any sequence of component clicks, Expand all and Shrink all,
\* the displayed prop, state and effect nodes are exactly the props, states
\* and effects of the components whose node type is "expanded", each of them
\* once, and the effect edges are exactly those of the expanded components.
C17_DisplayedAreOfExpanded ==
    LET edges == [i \in 1..Len(effectEdges) |->
                     <<effectEdges[i].source, effectEdges[i].target,
                       effectEdges[i].component>>]
    IN phase = "laidout" =>
           /\ NoDup(Shown(propNodes))
           /\ Range(Shown(propNodes)) = OwnedIds("props")
           /\ NoDup(Shown(stateNodes))
           /\ Range(Shown(stateNodes)) = OwnedIds("states")
           /\ NoDup(Shown(effectNodes))
           /\ Range(Shown(effectNodes)) = OwnedIds("effects")
           /\ NoDup(edges)
           /\ Range(edges) = OwnedEffectEdges

\* component 1 (two states) has been expanded and collapsed again while
\* another component, with an effect, stays expanded
C17_OneLeftExpanded ==
    /\ phase = "laidout"
    /\ NodeOf(1).type = "component"
    /\ NodeOf(1).size.width = baseExpadnedWidth
    /\ ExpandedComponents # {}
    /\ effectEdges # <<>>
    /\ stateNodes # <<>>

\* ----------------------------------------------------------------- C18
Acyclic(g) == \A c \in Comp : ~OnCycle(g, c)

\* the components that nest c
Parents(g, c) == {p \in Comp : Includes(g[p], c)}

\* length of the longest children path that ends in c, in an acyclic graph;
\* such a path starts at a component without parents, a root
RECURSIVE LongestPathTo(_, _)
LongestPathTo(g, c) ==
    IF Parents(g, c) = {} THEN 0
    ELSE LET up == {LongestPathTo(g, p) : p \in Parents(g, c)}
         IN 1 + CHOOSE m \in up : \A n \in up : n <= m

\* C18: for every acyclic component graph the layout pass creates exactly
\* one component node per component of componentList, the level of each node
\* is the length of the longest children path from a root to it, and so for
\* every children edge P -> C the level of C is greater than the level of P.
C18_LevelIsLongestPath ==
    (phase = "laidout" /\ Acyclic(produced)) =>
        /\ Len(componentNodes) = NumComp
        /\ \A c \in Comp :
               Cardinality({k \in 1..Len(componentNodes) :
                               componentNodes[k].id = c}) = 1
        /\ \A k \in 1..Len(componentNodes) :
               componentNodes[k].level
                   = LongestPathTo(produced, componentNodes[k].id)
        /\ \A p \in Comp :
               \A i \in 1..Len(children[p]) :
                   NodeOf(children[p][i]).level > NodeOf(p).level

\* component 3 is nested by the root and by the root's other child: it is
\* met on level 2 and on level 1, and is placed on level 2
C18_TwoPathsToOneNode ==
    /\ phase = "laidout"
    /\ Acyclic(produced)
    /\ \E r, a, b \in Comp :
           /\ produced[r] = <<b, a>>
           /\ produced[a] = <<b>>
           /\ produced[b] = <<>>
           /\ NodeOf(b).level = 2
           /\ NodeOf(a).level = 1
           /\ maxLevel = 2

=============================================================================
